---- MODULE Spec2Model ----
(***************************************************************************)
(* A model of UsenetStreamer's result post-processor (helpers that filter, *)
(* sort, de-duplicate and aggregate NZB results) and of its TMDB metadata  *)
(* resolver (src/services/tmdb.js).                                        *)
(*                                                                         *)
(* Pure functions are operators, computed as the code computes them. Each  *)
(* has a specification whose Init draws the call's arguments from bounded  *)
(* sets and whose action performs the call. The two async functions        *)
(* (resolveTmdbId, loadTmdbLocalization) are state machines with one       *)
(* action per stretch of code between two awaits.                          *)
(***************************************************************************)
EXTENDS Integers, Sequences, FiniteSets, TLC

VARIABLES
  op,         \* the function that was called ("none" before the call)
  args,       \* the arguments of the call
  heap,       \* the contents of the caller's array argument (Array#sort sorts in place)
  ret,        \* what the call returned (or that it threw)
  pc,         \* async functions: the await the call is suspended at
  requests,   \* async functions: the upstream requests issued so far, in order
  responses,  \* async functions: the upstream's answer to each request, in order
  inflight,   \* async functions: the requests issued and not yet answered
  locals      \* async functions: the local variables that live across an await

vars == <<op, args, heap, ret, pc, requests, responses, inflight, locals>>

asyncVars == <<pc, requests, responses, inflight, locals>>

(***************************************************************************)
(* Bounds of the model.                                                    *)
(***************************************************************************)
\* longest results array handed to the sort and filter helpers
MaxResults == 3

(***************************************************************************)
(* JavaScript values.                                                      *)
(***************************************************************************)
\* a number: finite, or not (undefined, NaN, Infinity and non-numbers all
\* fail Number.isFinite and are one value here)
Num(n) == [finite |-> TRUE, n |-> n]

NotFinite == [finite |-> FALSE, n |-> 0]

\* an array, and a value that is no array (null, undefined, an object)
Arr(items) == [isArray |-> TRUE, items |-> items]

NotAnArray == [isArray |-> FALSE, items |-> <<>>]

\* a string field that is missing (undefined, null and "" are all falsy)
Missing == ""

NoReturn == [called |-> FALSE]

Returned(v) == [called |-> TRUE, threw |-> FALSE, value |-> v]

Threw == [called |-> TRUE, threw |-> TRUE, value |-> "TypeError"]

SeqsUpTo(S, n) == UNION {[1..k -> S] : k \in 0..n}

Range(s) == {s[i] : i \in 1..Len(s)}

\* String.prototype.toLowerCase over the language tags the model uses
toLowerCase(s) ==
  CASE s = "EN" -> "en"
    [] s = "En" -> "en"
    [] s = "FR" -> "fr"
    [] s = "CA" -> "ca"
    [] s = "DE" -> "de"
    [] OTHER -> s

(***************************************************************************)
(* Result post-processor: size filter, comparator, sort.                   *)
(***************************************************************************)
\* the filter with the permissive default lost: an unknown size is dropped
applyMaxSizeFilter_dropsUnknown(results, maxSizeBytes) ==
  IF ~results.isArray \/ ~maxSizeBytes.finite \/ maxSizeBytes.n <= 0
  THEN [out |-> results, same |-> TRUE]
  ELSE [out |-> Arr(SelectSeq(results.items,
                     LAMBDA result : LET size == IF result.isObject THEN result.size ELSE NotFinite
                                     IN size.finite /\ size.n <= maxSizeBytes.n)),
        same |-> FALSE]

\* applyMaxSizeFilter: out is the returned array, same tells whether it is the
\* very array passed in (the early return) or a fresh one (Array#filter)
applyMaxSizeFilter(results, maxSizeBytes) ==
  IF ~results.isArray \/ ~maxSizeBytes.finite \/ maxSizeBytes.n <= 0
  THEN [out |-> results, same |-> TRUE]
  ELSE [out |-> Arr(SelectSeq(results.items,
                     LAMBDA result : LET size == IF result.isObject THEN result.size ELSE NotFinite
                                     IN ~size.finite \/ size.n <= maxSizeBytes.n)),
        same |-> FALSE]

resultMatchesPreferredLanguage(result, preferredLanguage) ==
  IF preferredLanguage = Missing \/ ~result.isObject THEN FALSE
  ELSE LET normalized == toLowerCase(preferredLanguage) IN
       IF result.language # Missing /\ toLowerCase(result.language) = normalized THEN TRUE
       ELSE IF result.languages.isArray
            THEN \E i \in 1..Len(result.languages.items) :
                   /\ result.languages.items[i] # Missing
                   /\ toLowerCase(result.languages.items[i]) = normalized
            ELSE FALSE

\* the comparator without its Number.isFinite guards: a subtraction with a
\* non-finite size is NaN, which a sort reads as 0
compareQualityThenSize_rawSize(a, b) ==
  IF a.qualityRank # b.qualityRank THEN b.qualityRank - a.qualityRank
  ELSE IF a.size.finite /\ b.size.finite THEN b.size.n - a.size.n ELSE 0

compareQualityThenSize(a, b) ==
  IF a.qualityRank # b.qualityRank THEN b.qualityRank - a.qualityRank
  ELSE LET aSize == IF a.size.finite THEN a.size.n ELSE 0
           bSize == IF b.size.finite THEN b.size.n ELSE 0
       IN bSize - aSize

\* Array.prototype.sort(compareQualityThenSize): ECMAScript's sort is stable, so
\* with a consistent comparator its result is the one a stable insertion sort gives
RECURSIVE InsertSorted(_, _)
InsertSorted(x, sorted) ==
  IF sorted = <<>> THEN <<x>>
  ELSE IF compareQualityThenSize(Head(sorted), x) <= 0
       THEN <<Head(sorted)>> \o InsertSorted(x, Tail(sorted))
       ELSE <<x>> \o sorted

RECURSIVE ArraySort(_)
ArraySort(items) ==
  IF items = <<>> THEN <<>>
  ELSE InsertSorted(items[Len(items)], ArraySort(SubSeq(items, 1, Len(items) - 1)))

\* sortAnnotatedResults: out is the returned array, arg the contents of the array
\* passed in once the call is over (results.sort sorts it in place)
sortAnnotatedResults_othersUnsorted(results, sortMode, preferredLanguage) ==
  IF ~results.isArray \/ Len(results.items) = 0 THEN [out |-> results, arg |-> results]
  ELSE IF sortMode = "language_quality_size" /\ preferredLanguage # Missing
       THEN LET preferred == SelectSeq(results.items,
                               LAMBDA r : resultMatchesPreferredLanguage(r, preferredLanguage))
                others == SelectSeq(results.items,
                               LAMBDA r : ~resultMatchesPreferredLanguage(r, preferredLanguage))
            IN [out |-> Arr(ArraySort(preferred) \o others), arg |-> results]
       ELSE [out |-> Arr(ArraySort(results.items)), arg |-> Arr(ArraySort(results.items))]

sortAnnotatedResults(results, sortMode, preferredLanguage) ==
  IF ~results.isArray \/ Len(results.items) = 0 THEN [out |-> results, arg |-> results]
  ELSE IF sortMode = "language_quality_size" /\ preferredLanguage # Missing
       THEN LET preferred == SelectSeq(results.items,
                               LAMBDA r : resultMatchesPreferredLanguage(r, preferredLanguage))
                others == SelectSeq(results.items,
                               LAMBDA r : ~resultMatchesPreferredLanguage(r, preferredLanguage))
            IN [out |-> Arr(ArraySort(preferred) \o ArraySort(others)), arg |-> results]
       ELSE [out |-> Arr(ArraySort(results.items)), arg |-> Arr(ArraySort(results.items))]

\* prepareSortedResults: the sort works on what the filter returned, which is the
\* caller's own array when the filter returned early
prepareSortedResults(results, options) ==
  LET working == applyMaxSizeFilter(results, options.maxSizeBytes)
      sorted == sortAnnotatedResults(working.out, options.sortMode, options.preferredLanguage)
  IN [out |-> sorted.out, arg |-> IF working.same THEN sorted.arg ELSE results]

(***************************************************************************)
(* The results the sort and filter helpers are called with.                *)
(***************************************************************************)
QualityRanks == {1, 2}

Sizes == {NotFinite, Num(0), Num(2)}

\* how a result carries its language: a `language` string, a `languages` array, both
LanguageShapes ==
  { [language |-> "En", languages |-> NotAnArray],
    [language |-> "fr", languages |-> Arr(<<"FR", "en">>)],
    [language |-> Missing, languages |-> Arr(<<"FR">>)] }

ResultObject(rank, size, shape) ==
  [isObject |-> TRUE, qualityRank |-> rank, size |-> size,
   language |-> shape.language, languages |-> shape.languages]

ResultObjects ==
  {ResultObject(q, s, l) : q \in QualityRanks, s \in Sizes, l \in LanguageShapes}

\* a null (or otherwise non-object) element of a results array
NullItem ==
  [isObject |-> FALSE, qualityRank |-> 0, size |-> NotFinite,
   language |-> Missing, languages |-> NotAnArray]

MaxSizeOptions == {NotFinite, Num(0), Num(1)}

SortOptions ==
  { [maxSizeBytes |-> m, sortMode |-> sm.sortMode, preferredLanguage |-> sm.preferredLanguage] :
      m \in MaxSizeOptions,
      sm \in { [sortMode |-> "language_quality_size", preferredLanguage |-> "EN"],
               [sortMode |-> "language_quality_size", preferredLanguage |-> Missing],
               [sortMode |-> "quality_size", preferredLanguage |-> "EN"] } }

IdleAsync ==
  /\ pc = "idle"
  /\ requests = <<>>
  /\ responses = <<>>
  /\ inflight = {}
  /\ locals = <<>>

(***************************************************************************)
(* SpecSort: sortAnnotatedResults and prepareSortedResults called on any   *)
(* array of up to MaxResults annotated results.                            *)
(***************************************************************************)
InitSort ==
  /\ op = "none"
  /\ \E items \in SeqsUpTo(ResultObjects, MaxResults), o \in SortOptions :
       args = [results |-> Arr(items), options |-> o]
  /\ heap = args.results
  /\ ret = NoReturn
  /\ IdleAsync

Call_sortAnnotatedResults ==
  /\ op = "none"
  /\ op' = "sortAnnotatedResults"
  /\ LET r == sortAnnotatedResults(args.results, args.options.sortMode,
                                    args.options.preferredLanguage)
     IN /\ ret' = Returned(r.out)
        /\ heap' = r.arg
  /\ UNCHANGED <<args, asyncVars>>

Call_prepareSortedResults ==
  /\ op = "none"
  /\ op' = "prepareSortedResults"
  /\ LET r == prepareSortedResults(args.results, args.options)
     IN /\ ret' = Returned(r.out)
        /\ heap' = r.arg
  /\ UNCHANGED <<args, asyncVars>>

NextSort ==
  \/ Call_sortAnnotatedResults
  \/ Call_prepareSortedResults

SpecSort == InitSort /\ [][NextSort]_vars

\* a result's size as the comparator reads it: a non-finite size counts as 0
SizeOrZero(r) == IF r.size.finite THEN r.size.n ELSE 0

\* descending qualityRank, then descending size
InQualityThenSizeOrder(a, b) ==
  \/ a.qualityRank > b.qualityRank
  \/ a.qualityRank = b.qualityRank /\ SizeOrZero(a) >= SizeOrZero(b)

Count(s, x) == Cardinality({i \in 1..Len(s) : s[i] = x})

SameElements(s, t) == \A x \in Range(s) \cup Range(t) : Count(s, x) = Count(t, x)

LanguageFirstCall ==
  /\ op = "sortAnnotatedResults"
  /\ args.options.sortMode = "language_quality_size"
  /\ args.options.preferredLanguage # Missing

\* C3: sortAnnotatedResults in mode 'language_quality_size' with a preferred
\* language returns the input's items with every item matching the preferred
\* language before every non-matching item, and each of the two partitions in
\* descending qualityRank, then descending size (non-finite size as 0) order.
C3_LanguageFirstSorted ==
  LanguageFirstCall =>
    LET out == ret.value.items
        matches(r) == resultMatchesPreferredLanguage(r, args.options.preferredLanguage)
    IN /\ SameElements(out, args.results.items)
       /\ \A i, j \in 1..Len(out) :
            i < j =>
              /\ matches(out[j]) => matches(out[i])
              /\ (matches(out[i]) = matches(out[j])) => InQualityThenSizeOrder(out[i], out[j])

\* C3 witness: a language-first call that had to move items: the output holds a
\* matching item and two non-matching ones of different rank, in another order
\* than the input's.
C3_Witness ==
  /\ LanguageFirstCall
  /\ ret.value # args.results
  /\ \E i, j, k \in 1..Len(ret.value.items) :
       /\ resultMatchesPreferredLanguage(ret.value.items[i], args.options.preferredLanguage)
       /\ ~resultMatchesPreferredLanguage(ret.value.items[j], args.options.preferredLanguage)
       /\ ~resultMatchesPreferredLanguage(ret.value.items[k], args.options.preferredLanguage)
       /\ ret.value.items[k].qualityRank < ret.value.items[j].qualityRank

\* C5: prepareSortedResults has no side effects: after the call the caller's
\* results array holds the same elements in the same order as before it.
C5_CallerArrayUntouched ==
  op = "prepareSortedResults" => heap = args.results

(***************************************************************************)
(* SpecFilter: applyMaxSizeFilter called on any value: no array, or an     *)
(* array of up to MaxResults items, null items among them.                 *)
(***************************************************************************)
FilterSizes == {NotFinite, Num(-1), Num(1), Num(2), Num(3)}

FilterItems ==
  {NullItem} \cup
  {ResultObject(1, s, [language |-> Missing, languages |-> NotAnArray]) : s \in FilterSizes}

FilterLimits == {NotFinite, Num(-1), Num(0), Num(1), Num(2)}

InitFilter ==
  /\ op = "none"
  /\ \E r \in {NotAnArray} \cup {Arr(items) : items \in SeqsUpTo(FilterItems, MaxResults)},
        m \in FilterLimits :
       args = [results |-> r, maxSizeBytes |-> m]
  /\ heap = args.results
  /\ ret = NoReturn
  /\ IdleAsync

Call_applyMaxSizeFilter ==
  /\ op = "none"
  /\ op' = "applyMaxSizeFilter"
  /\ ret' = Returned(applyMaxSizeFilter(args.results, args.maxSizeBytes).out)
  /\ UNCHANGED <<args, heap, asyncVars>>

NextFilter == Call_applyMaxSizeFilter

SpecFilter == InitFilter /\ [][NextFilter]_vars

\* an item the filter must keep under limit m: its size is unknown or at most m
WithinLimit(item, m) ==
  \/ ~item.isObject
  \/ ~item.size.finite
  \/ item.size.n <= m

\* out is the in-order subsequence of the items of inp at the indices in keep
IsSubsequenceAt(out, inp, keep) ==
  /\ Len(out) = Cardinality(keep)
  /\ \A i \in keep : out[Cardinality({k \in keep : k <= i})] = inp[i]

FilterApplies ==
  /\ op = "applyMaxSizeFilter"
  /\ args.results.isArray
  /\ args.maxSizeBytes.finite
  /\ args.maxSizeBytes.n > 0

\* C6: with a positive finite maxSizeBytes M, applyMaxSizeFilter returns exactly
\* the in-order subsequence of the items whose size is not a finite number or is
\* at most M; when M is not a positive finite number or results is not a
\* sequence, it returns its input unchanged.
C6_MaxSizeFilter ==
  /\ FilterApplies =>
       /\ ret.value.isArray
       /\ IsSubsequenceAt(ret.value.items, args.results.items,
            {i \in 1..Len(args.results.items) :
               WithinLimit(args.results.items[i], args.maxSizeBytes.n)})
  /\ (op = "applyMaxSizeFilter" /\ ~FilterApplies) => ret.value = args.results

\* C6 witness: a filtering call that removed an oversized item and kept an item
\* of unknown size.
C6_Witness ==
  /\ FilterApplies
  /\ Len(ret.value.items) < Len(args.results.items)
  /\ \E i \in 1..Len(ret.value.items) :
       ret.value.items[i].isObject /\ ~ret.value.items[i].size.finite

(***************************************************************************)
(* SpecCompare: compareQualityThenSize called on the pairs of three        *)
(* results a, b, c.                                                        *)
(***************************************************************************)
CompareItems ==
  {ResultObject(q, s, [language |-> Missing, languages |-> NotAnArray]) :
     q \in QualityRanks, s \in Sizes \cup {Num(-1)}}

Operands == {"a", "b", "c"}

InitCompare ==
  /\ op = "none"
  /\ args \in [Operands -> CompareItems]
  /\ heap = NotAnArray
  /\ ret = <<>>
  /\ IdleAsync

\* one call compare(x, y); ret collects the value each call returned
Call_compareQualityThenSize ==
  \E x, y \in Operands :
    /\ <<x, y>> \notin DOMAIN ret
    /\ op' = "compareQualityThenSize"
    /\ ret' = [p \in DOMAIN ret \cup {<<x, y>>} |->
                 IF p = <<x, y>> THEN compareQualityThenSize(args[x], args[y]) ELSE ret[p]]
    /\ UNCHANGED <<args, heap, asyncVars>>

NextCompare == Call_compareQualityThenSize

SpecCompare == InitCompare /\ [][NextCompare]_vars

Compared(x, y) == <<x, y>> \in DOMAIN ret

\* C10: compareQualityThenSize is a strict weak ordering: compare(a, a) is not
\* negative, compare(a, b) < 0 implies compare(b, a) > 0, "compare < 0" is
\* transitive, and equivalence (compare = 0 both ways) is transitive.
C10_StrictWeakOrdering ==
  \A x, y, z \in Operands :
    /\ Compared(x, x) => ret[<<x, x>>] >= 0
    /\ (Compared(x, y) /\ Compared(y, x) /\ ret[<<x, y>>] < 0) => ret[<<y, x>>] > 0
    /\ (Compared(x, y) /\ Compared(y, z) /\ Compared(x, z)
          /\ ret[<<x, y>>] < 0 /\ ret[<<y, z>>] < 0) => ret[<<x, z>>] < 0
    /\ (Compared(x, y) /\ Compared(y, x) /\ Compared(y, z) /\ Compared(z, y)
          /\ Compared(x, z) /\ Compared(z, x)
          /\ ret[<<x, y>>] = 0 /\ ret[<<y, x>>] = 0
          /\ ret[<<y, z>>] = 0 /\ ret[<<z, y>>] = 0)
         => (ret[<<x, z>>] = 0 /\ ret[<<z, x>>] = 0)

\* C10 witness: all nine comparisons made on three results of which a precedes b
\* and b precedes c, the first by rank and the second by size alone.
C10_Witness ==
  /\ \A x, y \in Operands : Compared(x, y)
  /\ args["a"].qualityRank > args["b"].qualityRank
  /\ args["b"].qualityRank = args["c"].qualityRank
  /\ ret[<<"a", "b">>] < 0
  /\ ret[<<"b", "c">>] < 0
  /\ ~args["c"].size.finite

(***************************************************************************)
(* Metadata resolver: resolveTmdbId.                                       *)
(***************************************************************************)
\* longest languageCandidates list handed to resolveTmdbId
MaxCandidates == 2

Null == [isNull |-> TRUE]

\* what the upstream does with one request: a payload holding an entry with an
\* id, a payload without one, a 4xx status, a 5xx status or no response at all
UpstreamOutcomes == {"match", "empty", "http4xx", "http5xx"}

normalizeLanguageTag(language) == IF language = Missing THEN "en-US" ELSE language

\* the request findTmdbIdByImdb sends, and what it makes of the answer
findRequest(imdbId) == [endpoint |-> "find", id |-> imdbId, language |-> Missing]

findTmdbIdByImdb(outcome) ==
  IF outcome = "match"
  THEN [isNull |-> FALSE, tmdbId |-> "550", language |-> Missing, via |-> Missing]
  ELSE Null

\* the request searchTmdbByTitle sends, and what it makes of the answer
searchRequest(title, language) ==
  [endpoint |-> "search", id |-> title,
   language |-> IF language # Missing THEN normalizeLanguageTag(language) ELSE Missing]

searchTmdbByTitle(outcome, language) ==
  IF outcome = "match"
  THEN [isNull |-> FALSE, tmdbId |-> "550",
        language |-> IF language # Missing THEN normalizeLanguageTag(language) ELSE Missing,
        via |-> Missing]
  ELSE Null

\* imdbMatch?.tmdbId
imdbMatched(imdbMatch) == ~imdbMatch.isNull /\ imdbMatch.tmdbId # Missing

\* a search answer tested on a field it never has (searchMatch?.id)
searchMatched_wrongField(searchMatch) == FALSE

\* searchMatch?.tmdbId
searchMatched(searchMatch) == ~searchMatch.isNull /\ searchMatch.tmdbId # Missing

\* the candidates the title search walks through
languageCandidatesOf(a) ==
  IF a.languageCandidates.isArray /\ Len(a.languageCandidates.items) > 0
  THEN a.languageCandidates.items
  ELSE <<Missing>>

viaOfSearch(candidate) == IF candidate # Missing THEN "title:" \o candidate ELSE "title"

Issue(request) ==
  /\ requests' = Append(requests, request)
  /\ inflight' = inflight \cup {Len(requests) + 1}

\* resolveTmdbId from `if (title)` on, about to try candidate number i: the next
\* search is issued, or the candidates are used up and the call returns null
TitleSearchFrom(i, stillInFlight) ==
  IF args.title # Missing /\ i <= Len(languageCandidatesOf(args))
  THEN /\ requests' = Append(requests, searchRequest(args.title, languageCandidatesOf(args)[i]))
       /\ inflight' = stillInFlight \cup {Len(requests) + 1}
       /\ locals' = [locals EXCEPT !.i = i]
       /\ pc' = "await_search"
       /\ ret' = ret
  ELSE /\ ret' = Returned(Null)
       /\ pc' = "done"
       /\ inflight' = stillInFlight
       /\ UNCHANGED <<requests, locals>>

InitResolve ==
  /\ op = "resolveTmdbId"
  /\ \E k \in {Missing, "key"}, id \in {Missing, "tt0137523"}, t \in {Missing, "Fight Club"},
        c \in {NotAnArray} \cup
              {Arr(items) : items \in SeqsUpTo({Missing, "en-US", "fr-FR"}, MaxCandidates)} :
       args = [apiKey |-> k, imdbId |-> id, title |-> t, languageCandidates |-> c]
  /\ heap = NotAnArray
  /\ ret = NoReturn
  /\ pc = "start"
  /\ locals = [i |-> 0]
  /\ requests = <<>>
  /\ responses = <<>>
  /\ inflight = {}

\* the call up to its first await (or its return)
Resolve_Start ==
  /\ pc = "start"
  /\ UNCHANGED <<op, args, heap, responses>>
  /\ IF args.apiKey = Missing
     THEN /\ ret' = Returned(Null)
          /\ pc' = "done"
          /\ UNCHANGED <<requests, inflight, locals>>
     ELSE IF args.imdbId # Missing
          THEN /\ Issue(findRequest(args.imdbId))
               /\ pc' = "await_find"
               /\ UNCHANGED <<ret, locals>>
          ELSE TitleSearchFrom(1, inflight)

\* the external-ID lookup is answered: the call resumes after its await
Resolve_FindAnswered ==
  /\ pc = "await_find"
  /\ \E outcome \in UpstreamOutcomes :
       LET imdbMatch == findTmdbIdByImdb(outcome) IN
       /\ responses' = Append(responses, outcome)
       /\ IF imdbMatched(imdbMatch)
          THEN /\ ret' = Returned([imdbMatch EXCEPT !.via = "imdb"])
               /\ pc' = "done"
               /\ inflight' = inflight \ {Len(requests)}
               /\ UNCHANGED <<requests, locals>>
          ELSE TitleSearchFrom(1, inflight \ {Len(requests)})
  /\ UNCHANGED <<op, args, heap>>

\* a title search is answered: the call resumes inside its loop
Resolve_SearchAnswered ==
  /\ pc = "await_search"
  /\ \E outcome \in UpstreamOutcomes :
       LET candidate == languageCandidatesOf(args)[locals.i]
           searchMatch == searchTmdbByTitle(outcome, candidate) IN
       /\ responses' = Append(responses, outcome)
       /\ IF searchMatched(searchMatch)
          THEN /\ ret' = Returned([searchMatch EXCEPT !.via = viaOfSearch(candidate)])
               /\ pc' = "done"
               /\ inflight' = inflight \ {Len(requests)}
               /\ UNCHANGED <<requests, locals>>
          ELSE TitleSearchFrom(locals.i + 1, inflight \ {Len(requests)})
  /\ UNCHANGED <<op, args, heap>>

NextResolve ==
  \/ Resolve_Start
  \/ Resolve_FindAnswered
  \/ Resolve_SearchAnswered

SpecResolve == InitResolve /\ [][NextResolve]_vars

\* the requests a call with these arguments can issue at most, in order: the
\* external-ID lookup when an ID is given, then (when a title is given) one title
\* search per language candidate, or a single language-less one
AllResolveRequests ==
  LET cands == IF args.languageCandidates.isArray /\ args.languageCandidates.items # <<>>
               THEN args.languageCandidates.items
               ELSE <<Missing>>
      lookup == IF args.imdbId # Missing
                THEN <<[endpoint |-> "find", id |-> args.imdbId, language |-> Missing]>>
                ELSE <<>>
      searches == IF args.title # Missing
                  THEN [i \in 1..Len(cands) |->
                          [endpoint |-> "search", id |-> args.title, language |-> cands[i]]]
                  ELSE <<>>
  IN lookup \o searches

IsPrefix(s, t) == Len(s) <= Len(t) /\ \A i \in 1..Len(s) : s[i] = t[i]

\* C1: with an API key, the requests resolveTmdbId issues are a prefix of
\* [external-ID lookup, title search per language candidate in order], in which
\* only the last request can have matched; once returned, a matching lookup gives
\* that match tagged 'imdb' (and no title search was issued), a matching search
\* gives that match tagged 'title:<lang>' or 'title', and when nothing matched
\* every request of the list was tried and the result is null.
C1_ResolveRequestOrder ==
  args.apiKey # Missing =>
    /\ IsPrefix(requests, AllResolveRequests)
    /\ Len(responses) <= Len(requests)
    /\ \A i \in 1..Len(responses) : i < Len(requests) => responses[i] # "match"
    /\ pc = "done" =>
         /\ Len(responses) = Len(requests)
         /\ IF requests # <<>> /\ responses[Len(responses)] = "match"
            THEN /\ ~ret.value.isNull
                 /\ ret.value.tmdbId = "550"
                 /\ LET last == requests[Len(requests)] IN
                    ret.value.via =
                      IF last.endpoint = "find" THEN "imdb"
                      ELSE IF last.language # Missing THEN "title:" \o last.language
                      ELSE "title"
                 /\ requests[1].endpoint = "find" /\ responses[1] = "match"
                      => Len(requests) = 1
            ELSE /\ ret.value = Null
                 /\ requests = AllResolveRequests

\* C1 witness: a call that fell back from a lookup without a match to the title
\* search and returned the second candidate's match.
C1_Witness ==
  /\ pc = "done"
  /\ args.apiKey # Missing
  /\ Len(requests) = 3
  /\ requests[1].endpoint = "find"
  /\ responses = <<"http4xx", "empty", "match">>
  /\ ret.value.via = "title:fr-FR"

(***************************************************************************)
(* Metadata resolver: locale tokens, title normalisation, scoring and      *)
(* buildLocalizedTitles.                                                   *)
(***************************************************************************)
\* longest translations list and longest alternative-titles list
MaxTranslations == 2

MaxAlternatives == 2

\* String.prototype.trim and toUpperCase over the codes the model uses
trim(s) == IF s = " FR" THEN "FR" ELSE IF s = " " THEN "" ELSE s

toUpperCase(s) ==
  CASE s = "ca" -> "CA"
    [] s = "fr" -> "FR"
    [] s = "en" -> "EN"
    [] s = "de" -> "DE"
    [] OTHER -> s

\* a value that is no string (undefined, null, a number)
NotAString == "(not a string)"

\* typeof v === 'string'
isString(v) == v # NotAString

\* the fallback token pushed without looking at lang
deriveLocaleTokens_fallbackUnguarded(iso639, iso3166, fallbackLanguage) ==
  LET lang == IF isString(iso639) THEN toLowerCase(trim(iso639)) ELSE Missing
      region == IF isString(iso3166) THEN toLowerCase(trim(iso3166)) ELSE Missing
  IN (IF lang # Missing /\ region # Missing THEN <<lang \o "-" \o region>> ELSE <<>>)
     \o (IF lang # Missing THEN <<lang>> ELSE <<>>)
     \o (IF region # Missing /\ isString(fallbackLanguage) /\ trim(fallbackLanguage) # Missing
         THEN <<toLowerCase(trim(fallbackLanguage)) \o "-" \o region>>
         ELSE <<>>)
     \o (IF region # Missing THEN <<region>> ELSE <<>>)

\* deriveLocaleTokens: a code that is no string, or is blank, gives no token
\* (lang and region are null or '' then, both falsy)
deriveLocaleTokens(iso639, iso3166, fallbackLanguage) ==
  LET lang == IF isString(iso639) THEN toLowerCase(trim(iso639)) ELSE Missing
      region == IF isString(iso3166) THEN toLowerCase(trim(iso3166)) ELSE Missing
  IN (IF lang # Missing /\ region # Missing THEN <<lang \o "-" \o region>> ELSE <<>>)
     \o (IF lang # Missing THEN <<lang>> ELSE <<>>)
     \o (IF lang = Missing /\ region # Missing
            /\ isString(fallbackLanguage) /\ trim(fallbackLanguage) # Missing
         THEN <<toLowerCase(trim(fallbackLanguage)) \o "-" \o region>>
         ELSE <<>>)
     \o (IF region # Missing THEN <<region>> ELSE <<>>)

\* A title is the sequence of its characters; <<>> is the empty (or missing) title.
NoTitle == <<>>

RECURSIVE Flatten(_)
Flatten(ss) == IF ss = <<>> THEN <<>> ELSE Head(ss) \o Flatten(Tail(ss))

\* String.prototype.normalize('NFKD') of one character
decomposeNFKD(c) == IF c = "e-acute" THEN <<"e", "combining-acute">> ELSE <<c>>

\* /[̀-ͯ]/
isCombiningMark(c) == c = "combining-acute"

charToLowerCase(c) ==
  CASE c = "L" -> "l"
    [] c = "N" -> "n"
    [] OTHER -> c

\* /[a-z0-9]/
isLowerAlnum(c) == c \in {"a", "e", "i", "k", "l", "n", "o", "t"}

\* /[^\x00-\x7f]/
isNonAscii(c) == c \in {"e-acute", "combining-acute"}

normalizeTitleValue(value) ==
  LET nfkd == Flatten([i \in 1..Len(value) |-> decomposeNFKD(value[i])])
      unmarked == SelectSeq(nfkd, LAMBDA c : ~isCombiningMark(c))
      lowered == [i \in 1..Len(unmarked) |-> charToLowerCase(unmarked[i])]
  IN SelectSeq(lowered, isLowerAlnum)

containsNonAscii(value) == \E i \in 1..Len(value) : isNonAscii(value[i])

\* /official|literal|original/i and /festival|working|dvd|tv/i on the types used
matchesOfficialLiteralOriginal(type) == type \in {"Official title", "Original TV title"}

matchesFestivalWorkingDvdTv(type) == type \in {"DVD", "working title", "Original TV title"}

scoreLocalizedCandidate(candidate, options) ==
    (IF candidate.source = "translation" THEN 40 ELSE 0)
  + (IF candidate.source = "alternative" THEN 15 ELSE 0)
  + (IF candidate.meta.type # Missing /\ matchesOfficialLiteralOriginal(candidate.meta.type)
     THEN 8 ELSE 0)
  - (IF candidate.meta.type # Missing /\ matchesFestivalWorkingDvdTv(candidate.meta.type)
     THEN 3 ELSE 0)
  + (IF candidate.meta.iso639 # Missing /\ options.originalLanguage # Missing
        /\ candidate.meta.iso639 = options.originalLanguage
     THEN 6 ELSE 0)
  + (IF candidate.meta.iso3166 # Missing
        /\ toUpperCase(candidate.meta.iso3166) \in Range(options.originCountries)
     THEN 4 ELSE 0)
  + (IF candidate.containsNonAscii THEN 3 ELSE 0)
  - (IF candidate.normalizedTitle # NoTitle
        /\ candidate.normalizedTitle = options.defaultNormalized
     THEN 6 ELSE 0)
  + (IF candidate.normalizedTitle # NoTitle
        /\ candidate.normalizedTitle = options.originalNormalized
     THEN 6 ELSE 0)

\* the options buildLocalizedTitles hands to scoreLocalizedCandidate
scoreOptionsOf(options) ==
  [defaultNormalized |-> normalizeTitleValue(options.defaultTitle),
   originalNormalized |-> normalizeTitleValue(options.originalTitle),
   originalLanguage |-> toLowerCase(trim(options.originalLanguage)),
   originCountries |->
     IF options.originCountries.isArray
     THEN SelectSeq([i \in 1..Len(options.originCountries.items) |->
                       toUpperCase(trim(options.originCountries.items[i]))],
                    LAMBDA c : c # Missing)
     ELSE <<>>]

\* registerCandidate's record for a payload
candidateOf(title, source, type, iso639, iso3166) ==
  [title |-> title,
   source |-> source,
   normalizedTitle |-> normalizeTitleValue(title),
   containsNonAscii |-> containsNonAscii(title),
   meta |-> [type |-> type, iso639 |-> toLowerCase(iso639), iso3166 |-> toLowerCase(iso3166)]]

\* translations.forEach: the registrations it makes, in order
translationTitle(entry) == IF entry.title # NoTitle THEN entry.title ELSE entry.name

translationRegistrations(translations) ==
  LET kept == SelectSeq(translations,
                LAMBDA entry : /\ entry.isObject
                               /\ entry.iso_639_1 # Missing
                               /\ translationTitle(entry) # NoTitle)
  IN [i \in 1..Len(kept) |->
        [tokens |-> Range(deriveLocaleTokens(kept[i].iso_639_1, kept[i].iso_3166_1, Missing)),
         candidate |-> candidateOf(translationTitle(kept[i]), "translation", Missing,
                                   kept[i].iso_639_1, kept[i].iso_3166_1)]]

\* alternativeTitles.forEach: the registrations it makes, in order
alternativeRegistrations(alternativeTitles, options) ==
  LET tokensOf(entry) ==
        Range(deriveLocaleTokens(entry.iso_639_1, entry.iso_3166_1, options.originalLanguage))
      kept == SelectSeq(alternativeTitles,
                LAMBDA entry : /\ entry.isObject
                               /\ entry.title # NoTitle
                               /\ tokensOf(entry) # {})
  IN [i \in 1..Len(kept) |->
        [tokens |-> tokensOf(kept[i]),
         candidate |-> candidateOf(kept[i].title, "alternative", kept[i].type,
                                   kept[i].iso_639_1, kept[i].iso_3166_1)]]

\* candidateMap once both loops are over: per locale token, its candidates in
\* the order they were pushed
candidateMapOf(translations, alternativeTitles, options) ==
  LET regs == translationRegistrations(translations)
                \o alternativeRegistrations(alternativeTitles, options)
      under(token) == SelectSeq(regs, LAMBDA r : token \in r.tokens)
  IN [token \in UNION {regs[i].tokens : i \in 1..Len(regs)} |->
        [i \in 1..Len(under(token)) |-> under(token)[i].candidate]]

\* the comparator turned round: ascending score
compareScored_ascending(a, b) == a - b

\* (a, b) => b.score - a.score
compareScored(a, b) == b - a

\* scored.sort(...): a stable sort by compareScored of the candidates' scores
RECURSIVE insertScored(_, _, _)
insertScored(x, sorted, options) ==
  IF sorted = <<>> THEN <<x>>
  ELSE IF compareScored(scoreLocalizedCandidate(Head(sorted), options),
                        scoreLocalizedCandidate(x, options)) <= 0
       THEN <<Head(sorted)>> \o insertScored(x, Tail(sorted), options)
       ELSE <<x>> \o sorted

RECURSIVE sortScored(_, _)
sortScored(candidates, options) ==
  IF candidates = <<>> THEN <<>>
  ELSE insertScored(candidates[Len(candidates)],
                    sortScored(SubSeq(candidates, 1, Len(candidates) - 1), options), options)

\* what localized[localeToken] keeps of the best candidate
localizedEntryOf(best) == [title |-> best.title, source |-> best.source, type |-> best.meta.type]

\* buildLocalizedTitles. An argument that is undefined takes the default [];
\* NotAnArray is an argument that is given and is no array (null), on which
\* forEach cannot be called. The empty object {} is the empty function <<>>.
buildLocalizedTitles(translations, alternativeTitles, options) ==
  IF /\ ~translations.isArray \/ Len(translations.items) = 0
     /\ ~alternativeTitles.isArray \/ Len(alternativeTitles.items) = 0
  THEN Returned(<<>>)
  ELSE IF ~translations.isArray \/ ~alternativeTitles.isArray
  THEN Threw
  ELSE LET candidateMap == candidateMapOf(translations.items, alternativeTitles.items, options)
           scoreOptions == scoreOptionsOf(options)
       IN Returned([localeToken \in DOMAIN candidateMap |->
                      localizedEntryOf(Head(sortScored(candidateMap[localeToken], scoreOptions)))])

(***************************************************************************)
(* SpecLocalize: buildLocalizedTitles called on any translations and       *)
(* alternative titles of the lengths bounded above.                        *)
(***************************************************************************)
Leon == <<"L", "e", "o", "n">>

LeonAccented == <<"L", "e-acute", "o", "n">>

Nikita == <<"N", "i", "k", "i", "t", "a">>

Entry(iso639, iso3166, title, name, type) ==
  [isObject |-> TRUE, iso_639_1 |-> iso639, iso_3166_1 |-> iso3166,
   title |-> title, name |-> name, type |-> type]

NullEntry ==
  [isObject |-> FALSE, iso_639_1 |-> Missing, iso_3166_1 |-> Missing,
   title |-> NoTitle, name |-> NoTitle, type |-> Missing]

\* translation records (title and name are data.title and data.name)
TranslationEntries ==
  { Entry("fr", "CA", LeonAccented, NoTitle, Missing),
    Entry("FR", Missing, NoTitle, Leon, Missing),
    Entry("fr", "FR", Nikita, NoTitle, Missing),
    Entry("en", "CA", Leon, NoTitle, Missing),
    NullEntry }

AlternativeEntries ==
  { Entry(Missing, "CA", LeonAccented, NoTitle, "Official title"),
    Entry("fr", "CA", Nikita, NoTitle, "DVD"),
    Entry(Missing, "FR", Leon, NoTitle, Missing),
    Entry(Missing, Missing, Nikita, NoTitle, "working title"),
    NullEntry }

LocalizeOptions ==
  { [originalLanguage |-> " FR", defaultTitle |-> Leon, originalTitle |-> LeonAccented,
     originCountries |-> Arr(<<"ca">>)],
    [originalLanguage |-> Missing, defaultTitle |-> Nikita, originalTitle |-> NoTitle,
     originCountries |-> NotAnArray] }

InitLocalize ==
  /\ op = "none"
  /\ \E t \in SeqsUpTo(TranslationEntries, MaxTranslations),
        a \in SeqsUpTo(AlternativeEntries, MaxAlternatives),
        o \in LocalizeOptions :
       args = [translations |-> Arr(t), alternativeTitles |-> Arr(a), options |-> o]
  /\ heap = NotAnArray
  /\ ret = NoReturn
  /\ IdleAsync

Call_buildLocalizedTitles ==
  /\ op = "none"
  /\ op' = "buildLocalizedTitles"
  /\ ret' = buildLocalizedTitles(args.translations, args.alternativeTitles, args.options)
  /\ UNCHANGED <<args, heap, asyncVars>>

NextLocalize == Call_buildLocalizedTitles

SpecLocalize == InitLocalize /\ [][NextLocalize]_vars

\* the candidates each token received in the call at hand, and their scores
RegisteredUnder ==
  candidateMapOf(args.translations.items, args.alternativeTitles.items, args.options)

ScoreOf(candidate) == scoreLocalizedCandidate(candidate, scoreOptionsOf(args.options))

\* C8: after buildLocalizedTitles every locale token that received a candidate
\* maps to one chosen title, that of a candidate whose scoreLocalizedCandidate
\* score is the maximum among the token's candidates and, among those with the
\* maximum score, the one registered first; no other token is mapped.
C8_BestCandidatePerToken ==
  op = "buildLocalizedTitles" =>
    /\ ~ret.threw
    /\ DOMAIN ret.value = DOMAIN RegisteredUnder
    /\ \A token \in DOMAIN RegisteredUnder :
         LET candidates == RegisteredUnder[token] IN
         \E i \in 1..Len(candidates) :
           /\ ret.value[token].title = candidates[i].title
           /\ ret.value[token].source = candidates[i].source
           /\ \A j \in 1..Len(candidates) : ScoreOf(candidates[j]) <= ScoreOf(candidates[i])
           /\ \A j \in 1..(i - 1) : ScoreOf(candidates[j]) < ScoreOf(candidates[i])

\* C8 witness: a token with three candidates, whose best score is shared by two
\* candidates with different titles; the first of the two won.
C8_Witness ==
  /\ op = "buildLocalizedTitles"
  /\ \E token \in DOMAIN RegisteredUnder :
       LET candidates == RegisteredUnder[token] IN
       /\ Len(candidates) >= 3
       /\ \E i, j, k \in 1..Len(candidates) :
            /\ i < j
            /\ ScoreOf(candidates[k]) < ScoreOf(candidates[i])
            /\ ScoreOf(candidates[i]) = ScoreOf(candidates[j])
            /\ \A m \in 1..Len(candidates) : ScoreOf(candidates[m]) <= ScoreOf(candidates[i])
            /\ candidates[i].title # candidates[j].title
            /\ ret.value[token].title = candidates[i].title

(***************************************************************************)
(* Metadata resolver: loadTmdbLocalization and the three fetches it awaits.*)
(***************************************************************************)
endpointOf(type) == IF type = "series" THEN "tv" ELSE "movie"

\* the guard all three fetches start with
fetchArgumentsMissing(a) == a.apiKey = Missing \/ a.type = Missing \/ a.tmdbId = Missing

metadataRequest(a) ==
  [kind |-> "metadata", path |-> endpointOf(a.type) \o "/" \o a.tmdbId]

translationsRequest(a) ==
  [kind |-> "translations", path |-> endpointOf(a.type) \o "/" \o a.tmdbId \o "/translations"]

alternativeTitlesRequest(a) ==
  [kind |-> "alternative_titles",
   path |-> endpointOf(a.type) \o "/" \o a.tmdbId \o "/alternative_titles"]

\* the upstream's answers: a payload, a body that holds nothing usable, a failure
Payload(body) == [kind |-> "payload", body |-> body]

EmptyBody == [kind |-> "empty", body |-> <<>>]

Failure(status) == [kind |-> status, body |-> <<>>]

\* the detail records the upstream can send (name, original_name, release_date
\* and first_air_date are read only to be copied into the bundle)
MetadataBodies ==
  { [isNull |-> FALSE, original_language |-> "FR", title |-> Leon,
     original_title |-> LeonAccented, origin_country |-> Arr(<<"CA">>)],
    [isNull |-> FALSE, original_language |-> Missing, title |-> Nikita,
     original_title |-> NoTitle, origin_country |-> NotAnArray] }

MetadataAnswers ==
  {Payload(b) : b \in MetadataBodies} \cup {EmptyBody, Failure("http404"), Failure("http5xx")}

TranslationsAnswers ==
  {Payload(b) : b \in SeqsUpTo(TranslationEntries, MaxTranslations)}
    \cup {EmptyBody, Failure("http5xx")}

AlternativeTitlesAnswers ==
  {Payload(b) : b \in SeqsUpTo(AlternativeEntries, MaxAlternatives)}
    \cup {EmptyBody, Failure("http4xx"), Failure("http5xx")}

\* fetchTmdbMetadata, from the answer on: response.data || null, null on any error
fetchTmdbMetadata(answer) == IF answer.kind = "payload" THEN answer.body ELSE Null

\* fetchTmdbTranslations, from the answer on
fetchTmdbTranslations(answer) ==
  IF answer.kind = "payload"
  THEN SelectSeq(answer.body,
         LAMBDA entry : entry.iso_639_1 # Missing /\ entry.isObject
                        /\ (entry.title # NoTitle \/ entry.name # NoTitle))
  ELSE <<>>

\* fetchTmdbAlternativeTitles, from the answer on
fetchTmdbAlternativeTitles(answer) ==
  IF answer.kind = "payload"
  THEN SelectSeq([i \in 1..Len(answer.body) |->
                    [answer.body[i] EXCEPT !.isObject = TRUE,
                                           !.title = IF @ # NoTitle THEN @ ELSE answer.body[i].name]],
                 LAMBDA entry : entry.iso_3166_1 # Missing /\ entry.title # NoTitle)
  ELSE <<>>

\* the null check skipped
metadataMissing_never(metadata) == FALSE

\* if (!metadata)
metadataMissing(metadata) == metadata.isNull

\* loadTmdbLocalization from buildLocalizedTitles on: the bundle it returns.
\* Reading a field of a null metadata throws.
localizationBundle(metadata, translations, alternativeTitles) ==
  IF metadata.isNull THEN Threw
  ELSE LET localizedTitles ==
             buildLocalizedTitles(Arr(translations), Arr(alternativeTitles),
               [originalLanguage |-> metadata.original_language,
                defaultTitle |-> metadata.title,
                originalTitle |-> metadata.original_title,
                originCountries |-> IF metadata.origin_country.isArray
                                    THEN metadata.origin_country ELSE Arr(<<>>)])
       IN IF localizedTitles.threw THEN Threw
          ELSE Returned([isNull |-> FALSE,
                         originalLanguage |-> toLowerCase(metadata.original_language),
                         defaultTitle |-> metadata.title,
                         originalTitle |-> metadata.original_title,
                         originCountries |-> IF metadata.origin_country.isArray
                                             THEN metadata.origin_country.items ELSE <<>>,
                         localizedTitles |-> localizedTitles.value])

InitLoad ==
  /\ op = "loadTmdbLocalization"
  /\ \E k \in {Missing, "key"}, t \in {Missing, "movie", "series"}, id \in {Missing, "550"} :
       args = [apiKey |-> k, type |-> t, tmdbId |-> id]
  /\ heap = NotAnArray
  /\ ret = NoReturn
  /\ pc = "start"
  /\ locals = [metadata |-> Null, translations |-> <<>>]
  /\ requests = <<>>
  /\ responses = <<>>
  /\ inflight = {}

\* the call up to await fetchTmdbMetadata: the fetch returns null at once when an
\* argument is missing, and sends its request otherwise
Load_Start ==
  /\ pc = "start"
  /\ IF fetchArgumentsMissing(args)
     THEN IF metadataMissing(Null)
          THEN /\ ret' = Returned(Null)
               /\ pc' = "done"
               /\ UNCHANGED <<requests, inflight>>
          ELSE \* fetchTmdbTranslations returns [] at once as well
               /\ ret' = localizationBundle(Null, <<>>, <<>>)
               /\ pc' = "done"
               /\ UNCHANGED <<requests, inflight>>
     ELSE /\ Issue(metadataRequest(args))
          /\ pc' = "await_metadata"
          /\ ret' = ret
  /\ UNCHANGED <<op, args, heap, responses, locals>>

\* the metadata request is answered
Load_MetadataAnswered ==
  /\ pc = "await_metadata"
  /\ \E answer \in MetadataAnswers :
       LET metadata == fetchTmdbMetadata(answer) IN
       /\ responses' = Append(responses, answer)
       /\ IF metadataMissing(metadata)
          THEN /\ ret' = Returned(Null)
               /\ pc' = "done"
               /\ inflight' = inflight \ {Len(requests)}
               /\ UNCHANGED <<requests, locals>>
          ELSE /\ requests' = Append(requests, translationsRequest(args))
               /\ inflight' = (inflight \ {Len(requests)}) \cup {Len(requests) + 1}
               /\ locals' = [locals EXCEPT !.metadata = metadata]
               /\ pc' = "await_translations"
               /\ ret' = ret
  /\ UNCHANGED <<op, args, heap>>

\* the translations request is answered
Load_TranslationsAnswered ==
  /\ pc = "await_translations"
  /\ \E answer \in TranslationsAnswers :
       /\ responses' = Append(responses, answer)
       /\ locals' = [locals EXCEPT !.translations = fetchTmdbTranslations(answer)]
  /\ requests' = Append(requests, alternativeTitlesRequest(args))
  /\ inflight' = (inflight \ {Len(requests)}) \cup {Len(requests) + 1}
  /\ pc' = "await_alternative_titles"
  /\ UNCHANGED <<op, args, heap, ret>>

\* the alternative-titles request is answered: the call builds its bundle
Load_AlternativeTitlesAnswered ==
  /\ pc = "await_alternative_titles"
  /\ \E answer \in AlternativeTitlesAnswers :
       /\ responses' = Append(responses, answer)
       /\ ret' = localizationBundle(locals.metadata, locals.translations,
                                    fetchTmdbAlternativeTitles(answer))
  /\ inflight' = inflight \ {Len(requests)}
  /\ pc' = "done"
  /\ UNCHANGED <<op, args, heap, requests, locals>>

NextLoad ==
  \/ Load_Start
  \/ Load_MetadataAnswered
  \/ Load_TranslationsAnswered
  \/ Load_AlternativeTitlesAnswered

SpecLoad == InitLoad /\ [][NextLoad]_vars

RequestKinds == [i \in 1..Len(requests) |-> requests[i].kind]

\* C9: loadTmdbLocalization issues its requests one after another in the order
\* metadata, translations, alternative titles, never two in flight; when the
\* metadata request yields nothing the call returns null and issues no further
\* request; when metadata is present the call returns a non-null bundle whatever
\* the translations and alternative-titles requests gave.
C9_SequentialLoad ==
  /\ Cardinality(inflight) <= 1
  /\ Len(requests) <= Len(responses) + 1
  /\ IsPrefix(RequestKinds, <<"metadata", "translations", "alternative_titles">>)
  /\ (Len(responses) >= 1 /\ responses[1].kind # "payload") =>
       /\ Len(requests) = 1
       /\ pc = "done"
       /\ ret = Returned(Null)
  /\ (pc = "done" /\ requests = <<>>) => ret = Returned(Null)
  /\ (pc = "done" /\ Len(responses) >= 1 /\ responses[1].kind = "payload") =>
       /\ Len(requests) = 3
       /\ Len(responses) = 3
       /\ ~ret.threw
       /\ ~ret.value.isNull

\* C9 witness: a call that found metadata, had its translations request fail and
\* its alternative-titles request refused, and returned a bundle all the same.
C9_Witness ==
  /\ pc = "done"
  /\ Len(responses) = 3
  /\ responses[1].kind = "payload"
  /\ responses[2].kind = "http5xx"
  /\ responses[3].kind = "http4xx"
  /\ ~ret.threw
  /\ ~ret.value.isNull
  /\ ret.value.localizedTitles = <<>>

(***************************************************************************)
(* Result post-processor: triage aggregation.                              *)
(***************************************************************************)
\* most decisions in a decision map
MaxDecisions == 3

\* normalizeReleaseTitle comes from ./parsers, which is not part of the source at
\* hand: a pure function from a title to its normalized form, here the one that
\* takes "Foo" and "foo" to the same string; no title gives no normalized title
normalizeReleaseTitle(title) ==
  CASE title = "Foo" -> "foo"
    [] title = "Bar" -> "bar"
    [] OTHER -> title

triageStatusRank(status) ==
  CASE status \in {"blocked", "fetch-error", "error"} -> 4
    [] status = "verified" -> 3
    [] status = "unverified" -> 2
    [] status \in {"pending", "skipped"} -> 1
    [] OTHER -> 0

\* decision.normalizedTitle || normalizeReleaseTitle(decision.title)
normalizedTitleOf(decision) ==
  IF decision.normalizedTitle # Missing THEN decision.normalizedTitle
  ELSE normalizeReleaseTitle(decision.title)

\* a later decision replaces the stored one only when it ranks strictly higher
replacesExisting_strict(status, existingStatus) ==
  triageStatusRank(status) > triageStatusRank(existingStatus)

\* triageStatusRank(status) >= triageStatusRank(existing.status)
replacesExisting(status, existingStatus) ==
  triageStatusRank(status) >= triageStatusRank(existingStatus)

\* one round of decisions.forEach: titleMap after the callback ran on the
\* decision stored under downloadUrl
triageCallback(titleMap, decision, downloadUrl) ==
  IF ~decision.isObject THEN titleMap
  ELSE IF decision.status \in {Missing, "pending", "skipped"} THEN titleMap
  ELSE LET normalizedTitle == normalizedTitleOf(decision) IN
       IF normalizedTitle = Missing THEN titleMap
       ELSE IF normalizedTitle \notin DOMAIN titleMap
               \/ replacesExisting(decision.status, titleMap[normalizedTitle].status)
            THEN [t \in DOMAIN titleMap \cup {normalizedTitle} |->
                    IF t = normalizedTitle
                    THEN [status |-> decision.status,
                          normalizedTitle |-> normalizedTitle,
                          title |-> decision.title,
                          sourceDownloadUrl |-> downloadUrl]
                    ELSE titleMap[t]]
            ELSE titleMap

RECURSIVE triageForEach(_, _, _)
triageForEach(titleMap, entries, k) ==
  IF k > Len(entries) THEN titleMap
  ELSE triageForEach(triageCallback(titleMap, entries[k].decision, entries[k].downloadUrl),
                     entries, k + 1)

\* buildTriageTitleMap: decisions is a Map (its entries in iteration order) or
\* something else; the Map returned is a function from normalized titles
buildTriageTitleMap(decisions) ==
  IF ~decisions.isMap THEN <<>> ELSE triageForEach(<<>>, decisions.entries, 1)

DecisionStatuses ==
  {Missing, "pending", "skipped", "unverified", "verified", "blocked", "error", "archived"}

\* how a decision carries its title
DecisionTitles ==
  { [normalizedTitle |-> "bar", title |-> "Foo"],
    [normalizedTitle |-> Missing, title |-> "Foo"],
    [normalizedTitle |-> Missing, title |-> Missing] }

NullDecision == [isObject |-> FALSE, status |-> Missing, normalizedTitle |-> Missing, title |-> Missing]

Decisions ==
  {NullDecision} \cup
  { [isObject |-> TRUE, status |-> s, normalizedTitle |-> t.normalizedTitle, title |-> t.title] :
      s \in DecisionStatuses, t \in DecisionTitles }

\* a Map's keys are distinct: the k-th entry is stored under download URL k
DecisionMap(ds) == [isMap |-> TRUE, entries |-> [k \in 1..Len(ds) |-> [downloadUrl |-> k, decision |-> ds[k]]]]

NotAMap == [isMap |-> FALSE, entries |-> <<>>]

InitTriage ==
  /\ op = "none"
  /\ \E d \in {NotAMap} \cup {DecisionMap(ds) : ds \in SeqsUpTo(Decisions, MaxDecisions)} :
       args = [decisions |-> d]
  /\ heap = NotAnArray
  /\ ret = NoReturn
  /\ IdleAsync

Call_buildTriageTitleMap ==
  /\ op = "none"
  /\ op' = "buildTriageTitleMap"
  /\ ret' = Returned(buildTriageTitleMap(args.decisions))
  /\ UNCHANGED <<args, heap, asyncVars>>

NextTriage == Call_buildTriageTitleMap

SpecTriage == InitTriage /\ [][NextTriage]_vars

\* the entries of the call's map that are not skipped and carry normalized title t
StoredFor(t) ==
  {k \in 1..Len(args.decisions.entries) :
     LET d == args.decisions.entries[k].decision IN
     /\ d.isObject
     /\ d.status \notin {Missing, "pending", "skipped"}
     /\ (IF d.normalizedTitle # Missing THEN d.normalizedTitle
         ELSE normalizeReleaseTitle(d.title)) = t}

RankAt(k) == triageStatusRank(args.decisions.entries[k].decision.status)

\* the last entry among ks whose rank is the highest among ks
LastOfHighestRank(ks) ==
  CHOOSE k \in ks :
    /\ \A m \in ks : RankAt(m) <= RankAt(k)
    /\ \A m \in ks : RankAt(m) = RankAt(k) => m <= k

TriageTitles == {"foo", "bar"}

\* C2: after buildTriageTitleMap, each normalized title's entry is the last
\* decision in iteration order whose triageStatusRank is the maximum among that
\* title's decisions that were not skipped; a title all of whose decisions have a
\* missing, 'pending' or 'skipped' status has no entry, and no entry ever holds
\* such a status.
C2_LastHighestRankWins ==
  op = "buildTriageTitleMap" =>
    /\ DOMAIN ret.value = {t \in TriageTitles : StoredFor(t) # {}}
    /\ \A t \in DOMAIN ret.value :
         LET k == LastOfHighestRank(StoredFor(t)) IN
         /\ ret.value[t].sourceDownloadUrl = args.decisions.entries[k].downloadUrl
         /\ ret.value[t].status = args.decisions.entries[k].decision.status
         /\ ret.value[t].status \notin {Missing, "pending", "skipped"}

\* C2 witness: one title with a 'verified' decision, then a 'blocked' one, then
\* an 'error' one (the same rank as 'blocked'): the entry is the 'error' decision.
C2_Witness ==
  /\ op = "buildTriageTitleMap"
  /\ Len(args.decisions.entries) = 3
  /\ args.decisions.entries[1].decision.status = "verified"
  /\ args.decisions.entries[2].decision.status = "blocked"
  /\ args.decisions.entries[3].decision.status = "error"
  /\ "foo" \in DOMAIN ret.value
  /\ StoredFor("foo") = {1, 2, 3}
  /\ ret.value["foo"].status = "error"
  /\ ret.value["foo"].sourceDownloadUrl = 3

(***************************************************************************)
(* Result post-processor: prioritizeTriageCandidates.                      *)
(***************************************************************************)
\* result.normalizedTitle || normalizeReleaseTitle(result.title) || result.downloadUrl
dedupKeyOf(result) ==
  IF result.normalizedTitle # Missing THEN result.normalizedTitle
  ELSE IF normalizeReleaseTitle(result.title) # Missing THEN normalizeReleaseTitle(result.title)
  ELSE result.downloadUrl

\* the limit tested with > in place of >=
reachedLimit_offByOne(length, maxCandidates) ==
  maxCandidates.finite /\ length > (IF maxCandidates.n > 1 THEN maxCandidates.n ELSE 1)

\* selected.length >= Math.max(1, maxCandidates); with maxCandidates undefined, NaN
\* or Infinity (NotFinite here) the comparison is never true
reachedLimit(length, maxCandidates) ==
  maxCandidates.finite /\ length >= (IF maxCandidates.n > 1 THEN maxCandidates.n ELSE 1)

\* the for loop from element k on
RECURSIVE prioritizeLoop(_, _, _, _, _)
prioritizeLoop(results, k, seenTitles, selected, maxCandidates) ==
  IF k > Len(results) THEN selected
  ELSE IF ~results[k].isObject
       THEN prioritizeLoop(results, k + 1, seenTitles, selected, maxCandidates)
       ELSE LET normalizedTitle == dedupKeyOf(results[k]) IN
            IF normalizedTitle \in seenTitles
            THEN prioritizeLoop(results, k + 1, seenTitles, selected, maxCandidates)
            ELSE IF reachedLimit(Len(selected) + 1, maxCandidates)
                 THEN Append(selected, results[k])
                 ELSE prioritizeLoop(results, k + 1, seenTitles \cup {normalizedTitle},
                                     Append(selected, results[k]), maxCandidates)

prioritizeTriageCandidates(results, maxCandidates) ==
  IF ~results.isArray \/ Len(results.items) = 0 THEN <<>>
  ELSE prioritizeLoop(results.items, 1, {}, <<>>, maxCandidates)

\* how a candidate carries its title and URL; sortIndex is the position
\* annotateNzbResult gave it, here its position in the array
CandidateShapes ==
  { [isObject |-> TRUE, normalizedTitle |-> "foo", title |-> "Foo", downloadUrl |-> "u1"],
    [isObject |-> TRUE, normalizedTitle |-> Missing, title |-> "Foo", downloadUrl |-> "u2"],
    [isObject |-> TRUE, normalizedTitle |-> Missing, title |-> "foo", downloadUrl |-> "u3"],
    [isObject |-> TRUE, normalizedTitle |-> Missing, title |-> "Bar", downloadUrl |-> "u4"],
    [isObject |-> TRUE, normalizedTitle |-> Missing, title |-> Missing, downloadUrl |-> "bar"],
    [isObject |-> TRUE, normalizedTitle |-> Missing, title |-> Missing, downloadUrl |-> Missing],
    [isObject |-> FALSE, normalizedTitle |-> Missing, title |-> Missing, downloadUrl |-> Missing] }

CandidateAt(shape, position) ==
  [isObject |-> shape.isObject, sortIndex |-> position, normalizedTitle |-> shape.normalizedTitle,
   title |-> shape.title, downloadUrl |-> shape.downloadUrl]

InitPrioritize ==
  /\ op = "none"
  /\ \E r \in {NotAnArray} \cup
              {Arr([k \in 1..Len(shapes) |-> CandidateAt(shapes[k], k)]) :
                 shapes \in SeqsUpTo(CandidateShapes, MaxResults)},
        m \in {NotFinite} \cup {Num(n) : n \in -1..MaxResults} :
       args = [results |-> r, maxCandidates |-> m]
  /\ heap = args.results
  /\ ret = NoReturn
  /\ IdleAsync

Call_prioritizeTriageCandidates ==
  /\ op = "none"
  /\ op' = "prioritizeTriageCandidates"
  /\ ret' = Returned(prioritizeTriageCandidates(args.results, args.maxCandidates))
  /\ UNCHANGED <<args, heap, asyncVars>>

NextPrioritize == Call_prioritizeTriageCandidates

SpecPrioritize == InitPrioritize /\ [][NextPrioritize]_vars

\* a result's dedup key: its normalized title, else its download URL
DedupKey(r) ==
  IF r.normalizedTitle # Missing THEN r.normalizedTitle
  ELSE IF r.title # Missing THEN normalizeReleaseTitle(r.title)
  ELSE r.downloadUrl

\* C7: prioritizeTriageCandidates returns a subsequence of the input whose dedup
\* keys (normalized title, else download URL) are pairwise distinct, in which each
\* item is the first input item carrying its key, and which, maxCandidates being
\* a number, holds at most max(1, maxCandidates) items.
C7_FirstSeenDistinctCapped ==
  op = "prioritizeTriageCandidates" =>
    LET out == ret.value
        inp == args.results.items
    IN /\ \A i \in 1..Len(out) :
            /\ out[i].sortIndex \in 1..Len(inp)
            /\ inp[out[i].sortIndex] = out[i]
            /\ out[i].isObject
            /\ \A m \in 1..(out[i].sortIndex - 1) :
                 inp[m].isObject => DedupKey(inp[m]) # DedupKey(out[i])
       /\ \A i, j \in 1..Len(out) :
            i < j => /\ out[i].sortIndex < out[j].sortIndex
                     /\ DedupKey(out[i]) # DedupKey(out[j])
       /\ args.maxCandidates.finite =>
            Len(out) <= (IF args.maxCandidates.n > 1 THEN args.maxCandidates.n ELSE 1)

\* C7 witness: the results {title 'Foo'}, {title 'foo'}, {title 'Bar'} with
\* maxCandidates 2 give the first and the third.
C7_Witness ==
  /\ op = "prioritizeTriageCandidates"
  /\ args.maxCandidates = Num(2)
  /\ Len(args.results.items) = 3
  /\ \A k \in 1..3 : args.results.items[k].normalizedTitle = Missing
  /\ args.results.items[1].title = "Foo"
  /\ args.results.items[2].title = "foo"
  /\ args.results.items[3].title = "Bar"
  /\ ret.value = <<args.results.items[1], args.results.items[3]>>

(***************************************************************************)
(* triageDecisionsMatchStatuses and buildLocalizedTitles on malformed      *)
(* input.                                                                  *)
(***************************************************************************)
\* decisionMap: null, a truthy value without a get method, or a Map
NoDecisionMap == [kind |-> "null", entries |-> <<>>]

PlainObject == [kind |-> "object", entries |-> <<>>]

StatusMap == [kind |-> "map", entries |-> [u \in {"u1", "u2"} |->
                                             IF u = "u1" THEN "verified" ELSE "blocked"]]

\* allowedStatuses: a Set, or left out
NoAllowedStatuses == [given |-> FALSE, members |-> {}]

AllowedStatuses(members) == [given |-> TRUE, members |-> members]

\* the for..of loop from candidate k on. Reading downloadUrl of a null candidate,
\* calling get on a value that has none and calling has on undefined all throw
\* a TypeError.
RECURSIVE matchStatusesLoop(_, _, _, _)
matchStatusesLoop(decisionMap, candidates, allowedStatuses, k) ==
  IF k > Len(candidates) THEN Returned(TRUE)
  ELSE IF ~candidates[k].isObject \/ decisionMap.kind # "map" THEN Threw
  ELSE IF candidates[k].downloadUrl \notin DOMAIN decisionMap.entries THEN Returned(FALSE)
  ELSE IF ~allowedStatuses.given THEN Threw
  ELSE IF decisionMap.entries[candidates[k].downloadUrl] \notin allowedStatuses.members
  THEN Returned(FALSE)
  ELSE matchStatusesLoop(decisionMap, candidates, allowedStatuses, k + 1)

\* candidates that is no array here is null
triageDecisionsMatchStatuses(decisionMap, candidates, allowedStatuses) ==
  IF decisionMap.kind = "null" \/ ~candidates.isArray \/ Len(candidates.items) = 0
  THEN Returned(FALSE)
  ELSE matchStatusesLoop(decisionMap, candidates.items, allowedStatuses, 1)

MalformedCandidates ==
  { [isObject |-> FALSE, downloadUrl |-> Missing],
    [isObject |-> TRUE, downloadUrl |-> "u1"],
    [isObject |-> TRUE, downloadUrl |-> "u2"],
    [isObject |-> TRUE, downloadUrl |-> Missing] }

InitMalformed ==
  /\ op = "none"
  /\ \E d \in {NoDecisionMap, PlainObject, StatusMap},
        c \in {NotAnArray} \cup {Arr(items) : items \in SeqsUpTo(MalformedCandidates, MaxResults)},
        s \in {NoAllowedStatuses, AllowedStatuses({"verified"})},
        t \in {NotAnArray, Arr(<<>>), Arr(<<Entry("fr", "CA", LeonAccented, NoTitle, Missing)>>)},
        a \in {NotAnArray, Arr(<<>>), Arr(<<Entry(Missing, "CA", Leon, NoTitle, "DVD")>>)} :
       args = [decisionMap |-> d, candidates |-> c, allowedStatuses |-> s,
               translations |-> t, alternativeTitles |-> a,
               options |-> [originalLanguage |-> "fr", defaultTitle |-> Leon,
                            originalTitle |-> NoTitle, originCountries |-> NotAnArray]]
  /\ heap = NotAnArray
  /\ ret = NoReturn
  /\ IdleAsync

Call_triageDecisionsMatchStatuses ==
  /\ op = "none"
  /\ op' = "triageDecisionsMatchStatuses"
  /\ ret' = triageDecisionsMatchStatuses(args.decisionMap, args.candidates, args.allowedStatuses)
  /\ UNCHANGED <<args, heap, asyncVars>>

NextMalformed ==
  \/ Call_triageDecisionsMatchStatuses
  \/ Call_buildLocalizedTitles

SpecMalformed == InitMalformed /\ [][NextMalformed]_vars

\* C4: called with malformed input, no function of the post-processor or of the
\* metadata resolver raises an exception.
C4_NeverThrows ==
  ret.called => ~ret.threw

(***************************************************************************)
(* Metadata resolver: deriveLocaleTokens on its own.                       *)
(***************************************************************************)
LanguageCodes == {NotAString, Missing, " ", "fr", " FR", "EN"}

RegionCodes == {NotAString, Missing, " ", "ca", "CA", "DE"}

FallbackLanguages == {NotAString, Missing, " ", "en", "EN", " FR"}

InitTokens ==
  /\ op = "none"
  /\ \E l \in LanguageCodes, r \in RegionCodes, f \in FallbackLanguages :
       args = [iso639 |-> l, iso3166 |-> r, fallbackLanguage |-> f]
  /\ heap = NotAnArray
  /\ ret = NoReturn
  /\ IdleAsync

Call_deriveLocaleTokens ==
  /\ op = "none"
  /\ op' = "deriveLocaleTokens"
  /\ ret' = Returned(deriveLocaleTokens(args.iso639, args.iso3166, args.fallbackLanguage))
  /\ UNCHANGED <<args, heap, asyncVars>>

NextTokens == Call_deriveLocaleTokens

SpecTokens == InitTokens /\ [][NextTokens]_vars

\* a code is given when it is a string with something other than blanks in it
Given(code) == code \notin {NotAString, Missing, " "}

\* the lowercase spelling of a given code
Lowercase(code) ==
  CASE code \in {"fr", " FR"} -> "fr"
    [] code \in {"en", "EN"} -> "en"
    [] code \in {"ca", "CA"} -> "ca"
    [] code = "DE" -> "de"

\* C11: deriveLocaleTokens returns the lowercase tokens lang-region, lang, region
\* when language and region are given; lang alone when only the language is;
\* fallback-region, region when only the region and a fallback language are;
\* region alone when only the region is; and nothing when neither is given.
C11_LocaleTokensInOrder ==
  op = "deriveLocaleTokens" =>
    LET l == args.iso639
        r == args.iso3166
        f == args.fallbackLanguage
    IN ret.value =
         (CASE Given(l) /\ Given(r) ->
                 <<Lowercase(l) \o "-" \o Lowercase(r), Lowercase(l), Lowercase(r)>>
            [] Given(l) /\ ~Given(r) -> <<Lowercase(l)>>
            [] ~Given(l) /\ Given(r) /\ Given(f) ->
                 <<Lowercase(f) \o "-" \o Lowercase(r), Lowercase(r)>>
            [] ~Given(l) /\ Given(r) /\ ~Given(f) -> <<Lowercase(r)>>
            [] ~Given(l) /\ ~Given(r) -> <<>>)

\* C11 witness: region DE with fallback language EN and no language gives
\* en-de, de.
C11_Witness ==
  /\ op = "deriveLocaleTokens"
  /\ ~Given(args.iso639)
  /\ args.iso3166 = "DE"
  /\ args.fallbackLanguage = "EN"
  /\ ret.value = <<"en-de", "de">>

====
